---- MODULE Spec2Model ----
(***************************************************************************)
(* Event core of ai-invest-news: text embedding with a process-local       *)
(* cache, adaptive clustering with the event-validity filter, event        *)
(* summarization, and the three-stage decision pipeline.                   *)
(*                                                                         *)
(* Python values are modelled as follows.                                  *)
(*   - a dict is a TLA+ record/function from key strings to values; a key  *)
(*     assignment d[k] = v is AddKey(d, k, v);                             *)
(*   - a NewsItem carries "id", the identity of the Python object (its     *)
(*     position in the caller's list); the code never reads it;            *)
(*   - a key whose value is None is named in the item's "none_fields"; a   *)
(*     key the dict lacks is no field of the record, and is read with Get; *)
(*   - investment_score and the score thresholds are in tenths (0.3 is 3); *)
(*   - a float ratio a / b is kept as the pair <<a, b>>;                   *)
(*   - a function that may throw returns a record with "raised" and "exc"; *)
(*   - an embedding is a small integer vector and cosine similarity is     *)
(*     computed on it exactly.                                             *)
(* Every batch of the model has at most MaxNews <= 10 items, so fit_cluster*)
(* always takes its greedy-cosine branch; the density-based branch is not  *)
(* modelled.                                                               *)
(***************************************************************************)
EXTENDS Integers, Sequences, FiniteSets, TLC

VARIABLES
    pc,          \* the caller: "ready" (collecting a batch), "events" (holding an
                 \* event list), "decided" (after a decision call), "embedded"
                 \* (after an embed_news call), "called" (after a direct call)
    news,        \* the caller's news list handed to analyze_events
    cache,       \* TextEmbedder._embedding_cache
    modelCalls,  \* log of the text batches passed to SentenceTransformer.encode
    labels,      \* label array of the last fit_cluster run (history variable)
    events,      \* the caller's event list (mutated in place by the decision stage)
    stats,       \* run_stats returned by the last analyze_events call
    failedStage, \* stage of the last analyze_events call that threw ("none" if none)
    raised,      \* TRUE iff the last call raised to its caller
    eventsIn,    \* the event list as it was handed to the last decision call
    decided,     \* list returned by the last decide / decide_with_stats call
    dstats,      \* stats returned by the last decision call (empty after decide)
    call,        \* record of the last direct call of a component: its arguments,
                 \* its result and, for the embedder, the cache it started from
    threads      \* per thread, the embed_texts call it runs on the shared
                 \* embedder: its position and its local variables

vars == <<pc, news, cache, modelCalls, labels, events, stats, failedStage,
          raised, eventsIn, decided, dstats, call, threads>>

----------------------------------------------------------------------------
(* Bounds of the model *)

\* longest news list handed to analyze_events
MaxNews == 4
\* longest event list handed to the decision pipeline
MaxEvents == 3
\* most clusters handed directly to summarize_events
MaxClusters == 3
\* largest cluster handed directly to summarize_events
MaxClusterSize == 2
\* longest news list handed to embed_news in one call of a long-lived embedder
MaxBatch == 3
\* longest news list handed to analyze_events in one cycle of a long-lived pipeline
MaxCycleNews == 2
\* most invocations of the embedding model in the life of one TextEmbedder
MaxModelCalls == 2

----------------------------------------------------------------------------
(* Configuration: event_config.py, clustering.py, decision_config.py *)

MIN_EVENT_SIZE == 2
MIN_CLUSTER_SIZE == 2
MIN_COMPANY_COUNT == 1
MIN_SIGNAL_COUNT == 1
\* 0.3, in tenths
MIN_INVESTMENT_SCORE == 3
\* similarity_threshold = 0.7, in hundredths
SIMILARITY_THRESHOLD == 70
\* list(keywords)[:10]
KEYWORD_CAP == 10

IMPORTANCE_THRESHOLDS ==
    [high   |-> [min_news |-> 3, min_sources |-> 2, min_score |-> 6],
     medium |-> [min_news |-> 2, min_sources |-> 1, min_score |-> 3]]

POSITIVE_SIGNALS ==
    {"earnings", "revenue", "profit", "funding", "investment", "contract",
     "partnership", "product_launch"}

RISK_SIGNALS ==
    {"regulation", "ban", "lawsuit", "antitrust", "investigation", "security",
     "data_leak", "delay"}

----------------------------------------------------------------------------
(* Generic helpers *)

\* d[k] = v on a Python dict
AddKey(d, k, v) == (k :> v) @@ d

HasKey(d, k) == k \in DOMAIN d

\* d.get(k, default)
Get(d, k, default) == IF HasKey(d, k) THEN d[k] ELSE default

\* the empty dict / empty list
EmptyDict == <<>>

RECURSIVE SeqOfSet(_)
\* the elements of a finite set of integers, ascending
SeqOfSet(S) ==
    IF S = {} THEN <<>>
    ELSE LET m == CHOOSE x \in S : \A y \in S : x <= y
         IN <<m>> \o SeqOfSet(S \ {m})

\* the subsequence of s at the positions in the set P, in order
SubSeqAt(s, P) == LET idx == SeqOfSet(P) IN [k \in 1..Len(idx) |-> s[idx[k]]]

Range(s) == {s[i] : i \in 1..Len(s)}

RECURSIVE SumSeq(_)
SumSeq(s) == IF s = <<>> THEN 0 ELSE Head(s) + SumSeq(Tail(s))

Max(a, b) == IF a >= b THEN a ELSE b

MaxOfSeq(s) == CHOOSE x \in Range(s) : \A y \in Range(s) : y <= x
MinOfSeq(s) == CHOOSE x \in Range(s) : \A y \in Range(s) : x <= y

\* news.get(key, default) is None
IsNone(item, key) == key \in item.none_fields

----------------------------------------------------------------------------
(* TextEmbedder: embedding.py *)

\* SentenceTransformer.encode on one text: the external model, a fixed function
\* of the text; this one reads the title line of the structured prompt.
Encode(text) ==
    CASE text.title = "alpha" -> <<1, 0>>
      [] text.title = "beta"  -> <<1, 1>>
      [] text.title = "gamma" -> <<0, 1>>
      [] OTHER                -> <<0, 0>>

\* hashlib.md5(text).hexdigest(): one key per text
GenerateCacheKey(text) == <<"md5", text>>

\* the f-string prints a None content as "None"
BuildStructuredPrompt(item) ==
    [title     |-> item.title,
     content   |-> IF IsNone(item, "content") THEN "None" ELSE item.content,
     signals   |-> Get(item, "signals", {}),
     companies |-> Get(item, "companies", {})]

\* faulty variant of UncachedIndices: every text counts as a miss
UncachedIndicesAll(texts, c) == 1..Len(texts)

\* positions of texts whose key is not in the cache when the call starts
UncachedIndices(texts, c) ==
    {i \in 1..Len(texts) : ~HasKey(c, GenerateCacheKey(texts[i]))}

\* faulty variant of StoreOne: the first new embedding is stored under every key
StoreOneFirstEmbedding(c, uncached_texts, new_embeddings, j) ==
    AddKey(c, GenerateCacheKey(uncached_texts[j]), new_embeddings[1])

\* one iteration of the caching loop:
\* self._embedding_cache[cache_key] = new_embeddings[j]
StoreOne(c, uncached_texts, new_embeddings, j) ==
    AddKey(c, GenerateCacheKey(uncached_texts[j]), new_embeddings[j])

RECURSIVE StoreAll(_, _, _)
\* for j, text in enumerate(uncached_texts): cache[key(text)] = new_embeddings[j]
StoreAll(c, uncached_texts, new_embeddings) ==
    IF uncached_texts = <<>> THEN c
    ELSE StoreAll(AddKey(c, GenerateCacheKey(Head(uncached_texts)), Head(new_embeddings)),
                  Tail(uncached_texts), Tail(new_embeddings))

\* faulty variant of MergeEmbeddings: the cached embeddings come first
MergeCachedFirst(n, uncached_indices, cached_embeddings, new_embeddings) ==
    cached_embeddings \o new_embeddings

\* the merge loop: the i-th output is the next unread new embedding when i is an
\* uncached index, the next unread cached embedding otherwise
MergeEmbeddings(n, uncached_indices, cached_embeddings, new_embeddings) ==
    [i \in 1..n |->
        IF i \in uncached_indices
        THEN new_embeddings[Cardinality({j \in uncached_indices : j <= i})]
        ELSE cached_embeddings[Cardinality({j \in (1..n) \ uncached_indices : j <= i})]]

\* faulty variant of EmbedTexts: a failed model call is retried once before the
\* exception is passed on
EmbedTextsRetries(texts, c, modelFails) ==
    IF texts = <<>>
    THEN [raised |-> FALSE, exc |-> "", value |-> <<>>, cache |-> c, calls |-> <<>>]
    ELSE
    LET uncached_indices == UncachedIndices(texts, c)
        cached_embeddings ==
            LET hit == SubSeqAt(texts, (1..Len(texts)) \ uncached_indices)
            IN [k \in 1..Len(hit) |-> c[GenerateCacheKey(hit[k])]]
        uncached_texts == SubSeqAt(texts, uncached_indices)
        new_embeddings == [k \in 1..Len(uncached_texts) |-> Encode(uncached_texts[k])]
    IN  IF uncached_texts # <<>> /\ modelFails
        THEN [raised |-> TRUE, exc |-> "ModelError", value |-> <<>>, cache |-> c,
              calls |-> <<uncached_texts, uncached_texts>>]
        ELSE [raised |-> FALSE, exc |-> "",
              value  |-> MergeEmbeddings(Len(texts), uncached_indices,
                                         cached_embeddings, new_embeddings),
              cache  |-> StoreAll(c, uncached_texts, new_embeddings),
              calls  |-> IF uncached_texts # <<>> THEN <<uncached_texts>> ELSE <<>>]

\* embed_texts(texts) on cache c; modelFails: the model call throws.
\* Returns the vectors, the cache after the call and the batches sent to the model.
EmbedTexts(texts, c, modelFails) ==
    IF texts = <<>>
    THEN [raised |-> FALSE, exc |-> "", value |-> <<>>, cache |-> c, calls |-> <<>>]
    ELSE
    LET uncached_indices == UncachedIndices(texts, c)
        cached_embeddings ==
            LET hit == SubSeqAt(texts, (1..Len(texts)) \ uncached_indices)
            IN [k \in 1..Len(hit) |-> c[GenerateCacheKey(hit[k])]]
        uncached_texts == SubSeqAt(texts, uncached_indices)
        new_embeddings == [k \in 1..Len(uncached_texts) |-> Encode(uncached_texts[k])]
    IN  IF uncached_texts # <<>> /\ modelFails
        THEN [raised |-> TRUE, exc |-> "ModelError", value |-> <<>>, cache |-> c,
              calls |-> <<uncached_texts>>]
        ELSE [raised |-> FALSE, exc |-> "",
              value  |-> MergeEmbeddings(Len(texts), uncached_indices,
                                         cached_embeddings, new_embeddings),
              cache  |-> StoreAll(c, uncached_texts, new_embeddings),
              calls  |-> IF uncached_texts # <<>> THEN <<uncached_texts>> ELSE <<>>]

\* embed_news(news_list)
EmbedNews(news_list, c, modelFails) ==
    IF news_list = <<>>
    THEN [raised |-> FALSE, exc |-> "", value |-> <<>>, cache |-> c, calls |-> <<>>]
    ELSE EmbedTexts([i \in 1..Len(news_list) |-> BuildStructuredPrompt(news_list[i])],
                    c, modelFails)

----------------------------------------------------------------------------
(* NewsClusterer: clustering.py *)

Dot(a, b) == a[1] * b[1] + a[2] * b[2]

\* cosine_similarity(a, b) > similarity_threshold, decided exactly:
\* dot / (|a| |b|) > t/100  iff  dot > 0 and 100^2 dot^2 > t^2 |a|^2 |b|^2.
\* sklearn leaves a zero vector at similarity 0 with everything.
CosineAbove(a, b) ==
    /\ Dot(a, b) > 0
    /\ 100 * 100 * Dot(a, b) * Dot(a, b)
         > SIMILARITY_THRESHOLD * SIMILARITY_THRESHOLD * Dot(a, a) * Dot(b, b)

\* faulty variant of SimilarIndices: the point itself is left out of its
\* similar set
SimilarIndicesWithoutSelf(embeddings, i) ==
    {j \in 1..Len(embeddings) \ {i} : CosineAbove(embeddings[i], embeddings[j])}

\* np.where(similarity_matrix[i] > similarity_threshold)[0]
SimilarIndices(embeddings, i) ==
    {j \in 1..Len(embeddings) : CosineAbove(embeddings[i], embeddings[j])}

\* faulty variant of AssignLabels: a point that carries a label keeps it
AssignLabelsKeepExisting(lbl, similar_indices, cluster_id) ==
    [j \in 1..Len(lbl) |->
        IF j \in similar_indices /\ lbl[j] = -1 THEN cluster_id ELSE lbl[j]]

\* labels[similar_indices] = cluster_id
AssignLabels(lbl, similar_indices, cluster_id) ==
    [j \in 1..Len(lbl) |-> IF j \in similar_indices THEN cluster_id ELSE lbl[j]]

RECURSIVE GreedyFrom(_, _, _, _)
\* the loop "for i in range(n)" from point i on
GreedyFrom(embeddings, i, lbl, cluster_id) ==
    IF i > Len(embeddings) THEN lbl
    ELSE IF lbl[i] # -1 THEN GreedyFrom(embeddings, i + 1, lbl, cluster_id)
    ELSE LET similar_indices == SimilarIndices(embeddings, i)
         IN IF Cardinality(similar_indices) >= MIN_CLUSTER_SIZE
            THEN GreedyFrom(embeddings, i + 1,
                            AssignLabels(lbl, similar_indices, cluster_id),
                            cluster_id + 1)
            ELSE GreedyFrom(embeddings, i + 1, lbl, cluster_id)

\* _cosine_greedy_clustering(embeddings)
CosineGreedyClustering(embeddings) ==
    IF Len(embeddings) = 0 THEN <<>>
    ELSE GreedyFrom(embeddings, 1, [i \in 1..Len(embeddings) |-> -1], 0)

\* faulty variant of FitCluster: every point is left as noise
FitClusterAllNoise(embeddings) == [i \in 1..Len(embeddings) |-> -1]

\* fit_cluster(embeddings): the labels (n_samples <= 10 in every batch of the model)
FitCluster(embeddings) == CosineGreedyClustering(embeddings)

RECURSIVE SumScores(_)
SumScores(cluster) ==
    IF cluster = <<>> THEN 0
    ELSE Get(Head(cluster), "investment_score", 0) + SumScores(Tail(cluster))

UnionOf(cluster, key) == UNION {Get(cluster[i], key, {}) : i \in 1..Len(cluster)}

\* faulty variant of IsValidEvent: the mean score is not tested
IsValidEventIgnoresScore(cluster) ==
    IF Len(cluster) < MIN_EVENT_SIZE
    THEN [raised |-> FALSE, exc |-> "", value |-> FALSE]
    ELSE IF \E i \in 1..Len(cluster) : IsNone(cluster[i], "investment_score")
    THEN [raised |-> TRUE, exc |-> "TypeError", value |-> FALSE]
    ELSE [raised |-> FALSE, exc |-> "",
          value  |-> /\ Cardinality(UnionOf(cluster, "companies")) >= MIN_COMPANY_COUNT
                     /\ Cardinality(UnionOf(cluster, "signals")) >= MIN_SIGNAL_COUNT]

\* faulty variant of IsValidEvent: the mean score must exceed the minimum
IsValidEventStrictScore(cluster) ==
    IF Len(cluster) < MIN_EVENT_SIZE
    THEN [raised |-> FALSE, exc |-> "", value |-> FALSE]
    ELSE IF \E i \in 1..Len(cluster) : IsNone(cluster[i], "investment_score")
    THEN [raised |-> TRUE, exc |-> "TypeError", value |-> FALSE]
    ELSE [raised |-> FALSE, exc |-> "",
          value  |-> /\ Cardinality(UnionOf(cluster, "companies")) >= MIN_COMPANY_COUNT
                     /\ Cardinality(UnionOf(cluster, "signals")) >= MIN_SIGNAL_COUNT
                     /\ SumScores(cluster) > MIN_INVESTMENT_SCORE * Len(cluster)]

\* _is_valid_event(cluster); total_investment_score += None throws TypeError
IsValidEvent(cluster) ==
    IF Len(cluster) < MIN_EVENT_SIZE
    THEN [raised |-> FALSE, exc |-> "", value |-> FALSE]
    ELSE IF \E i \in 1..Len(cluster) : IsNone(cluster[i], "investment_score")
    THEN [raised |-> TRUE, exc |-> "TypeError", value |-> FALSE]
    ELSE [raised |-> FALSE, exc |-> "",
          value  |-> /\ Cardinality(UnionOf(cluster, "companies")) >= MIN_COMPANY_COUNT
                     /\ Cardinality(UnionOf(cluster, "signals")) >= MIN_SIGNAL_COUNT
                     \* avg_investment_score >= MIN_INVESTMENT_SCORE
                     /\ SumScores(cluster) >= MIN_INVESTMENT_SCORE * Len(cluster)]

\* the keys of the dict "clusters" in insertion order: labels by first appearance
LabelOrder(lbl) ==
    LET first == {i \in 1..Len(lbl) : \A j \in 1..(i - 1) : lbl[j] # lbl[i]}
    IN SubSeqAt(lbl, first)

\* faulty variant of ClusterOfLabel: the group of a label also takes the items
\* of the earlier cluster ids
ClusterOfLabelOrEarlier(news_list, lbl, l) ==
    SubSeqAt(news_list, {i \in 1..Len(news_list) : lbl[i] = l \/ (0 <= lbl[i] /\ lbl[i] < l)})

\* clusters[label]: the items carrying the label, in list order
ClusterOfLabel(news_list, lbl, l) ==
    SubSeqAt(news_list, {i \in 1..Len(news_list) : lbl[i] = l})

\* faulty variant of ValidClusters: the noise group is kept as a cluster
ValidClustersKeepNoise(news_list, lbl) ==
    LET order == LabelOrder(lbl)
    IN [k \in 1..Len(order) |-> ClusterOfLabel(news_list, lbl, order[k])]

\* valid_clusters: every group but the noise group
ValidClusters(news_list, lbl) ==
    LET order == LabelOrder(lbl)
        keep  == {k \in 1..Len(order) : order[k] # -1}
        kept  == SubSeqAt(order, keep)
    IN [k \in 1..Len(kept) |-> ClusterOfLabel(news_list, lbl, kept[k])]

\* the loop over valid_clusters keeping those _is_valid_event accepts
FinalEvents(valid_clusters) ==
    SubSeqAt(valid_clusters,
             {k \in 1..Len(valid_clusters) : IsValidEvent(valid_clusters[k]).value})

\* cluster_news(news_list, embeddings); "stats" is the local dict the method fills
\* and drops on return
ClusterNews(news_list, embeddings) ==
    IF news_list = <<>> \/ embeddings = <<>>
    THEN [raised |-> FALSE, exc |-> "", value |-> <<>>, stats |-> EmptyDict]
    ELSE
    LET lbl == FitCluster(embeddings)
        valid_clusters == ValidClusters(news_list, lbl)
        final_events == FinalEvents(valid_clusters)
    IN  IF \E k \in 1..Len(valid_clusters) : IsValidEvent(valid_clusters[k]).raised
        THEN [raised |-> TRUE, exc |-> "TypeError", value |-> <<>>, stats |-> EmptyDict]
        ELSE [raised |-> FALSE, exc |-> "", value |-> final_events,
              stats |-> [original_clusters |-> Len(valid_clusters),
                         valid_events |-> Len(final_events),
                         filtered_clusters |-> Len(valid_clusters) - Len(final_events)]]

----------------------------------------------------------------------------
(* EventSummarizer: event_summary.py *)

\* the words of a text with len(word) > 3 and word.isalpha(); every text of the
\* model is the empty string or one lowercase word of more than three letters
KeywordTokens(text) == IF text = "" THEN {} ELSE {text}

\* generate_event_keywords(news_cluster): None.lower() throws AttributeError.
\* list(keywords)[:10] keeps any KEYWORD_CAP of the words (set order).
GenerateEventKeywords(news_cluster) ==
    IF \E i \in 1..Len(news_cluster) : IsNone(news_cluster[i], "content")
    THEN [raised |-> TRUE, exc |-> "AttributeError", value |-> {}]
    ELSE LET keywords == UNION {KeywordTokens(news_cluster[i].title)
                                  \cup KeywordTokens(news_cluster[i].content)
                                : i \in 1..Len(news_cluster)}
         IN [raised |-> FALSE, exc |-> "",
             value  |-> IF Cardinality(keywords) <= KEYWORD_CAP THEN keywords
                        ELSE CHOOSE K \in SUBSET keywords : Cardinality(K) = KEYWORD_CAP]

\* _generate_text_summary(news_cluster): the first title, and the count the
\* suffix names (0: no suffix)
GenerateTextSummary(news_cluster) ==
    [title |-> news_cluster[1].title, additional |-> Len(news_cluster) - 1]

\* f"event_{datetime.now().strftime('%Y%m%d%H%M%S')}" when the clock shows second now
EventId(now) == <<"event_", now>>

\* generate_event_summary(news_cluster) called when the clock shows second now
GenerateEventSummary(news_cluster, now) ==
    LET kw    == GenerateEventKeywords(news_cluster)
        dates == [i \in 1..Len(news_cluster) |-> news_cluster[i].date]
    IN [raised |-> kw.raised, exc |-> kw.exc,
        value  |-> [event_id |-> EventId(now),
                    news_count |-> Len(news_cluster),
                    sources |-> {news_cluster[i].source : i \in 1..Len(news_cluster)},
                    date_range |-> [earliest |-> MinOfSeq(dates), latest |-> MaxOfSeq(dates)],
                    keywords |-> kw.value,
                    representative_title |-> news_cluster[1].title,
                    summary |-> GenerateTextSummary(news_cluster),
                    news_list |-> news_cluster]]

RECURSIVE InsertByCount(_, _)
\* place e behind every event whose news_count is at least e's (stable, descending)
InsertByCount(sorted, e) ==
    IF sorted = <<>> THEN <<e>>
    ELSE IF Head(sorted).news_count >= e.news_count
         THEN <<Head(sorted)>> \o InsertByCount(Tail(sorted), e)
         ELSE <<e>> \o sorted

\* faulty variant of SortByNewsCount: the events stay in cluster order
SortKeepsClusterOrder(evs) == evs

RECURSIVE SortByNewsCount(_)
\* events.sort(key=news_count, reverse=True): a stable sort
SortByNewsCount(evs) ==
    IF evs = <<>> THEN <<>>
    ELSE InsertByCount(SortByNewsCount(SubSeq(evs, 1, Len(evs) - 1)), evs[Len(evs)])

\* summarize_events(news_clusters); nows[k] is the second the clock shows at the
\* k-th generate_event_summary call
SummarizeEvents(news_clusters, nows) ==
    LET made == [k \in 1..Len(news_clusters) |->
                    GenerateEventSummary(news_clusters[k], nows[k])]
    IN  IF \E k \in 1..Len(made) : made[k].raised
        THEN [raised |-> TRUE,
              exc |-> made[CHOOSE k \in 1..Len(made) :
                             made[k].raised /\ \A j \in 1..(k - 1) : ~made[j].raised].exc,
              value |-> <<>>]
        ELSE [raised |-> FALSE, exc |-> "",
              value |-> SortByNewsCount([k \in 1..Len(made) |-> made[k].value])]

----------------------------------------------------------------------------
(* EventPipeline: event_pipeline.py *)

\* faulty variant of DetailedStats: the coverage rate counts events, not their news
DetailedStatsCountsEvents(st, evs, total_news) ==
    IF evs = <<>> THEN st
    ELSE LET event_sizes == [k \in 1..Len(evs) |-> evs[k].news_count]
         IN AddKey(AddKey(AddKey(AddKey(AddKey(st,
                "total_news_in_events", SumSeq(event_sizes)),
                "coverage_rate", <<Len(evs), total_news>>),
                "avg_event_size", <<SumSeq(event_sizes), Len(event_sizes)>>),
                "max_event_size", MaxOfSeq(event_sizes)),
                "min_event_size", MinOfSeq(event_sizes))

\* the "if events:" block of analyze_events
DetailedStats(st, evs, total_news) ==
    IF evs = <<>> THEN st
    ELSE LET event_sizes == [k \in 1..Len(evs) |-> evs[k].news_count]
             total_news_in_events == SumSeq(event_sizes)
         IN AddKey(AddKey(AddKey(AddKey(AddKey(st,
                "total_news_in_events", total_news_in_events),
                "coverage_rate", <<total_news_in_events, total_news>>),
                "avg_event_size", <<SumSeq(event_sizes), Len(event_sizes)>>),
                "max_event_size", MaxOfSeq(event_sizes)),
                "min_event_size", MinOfSeq(event_sizes))

\* the components analyze_events has called when the given stage throws
StagesUpTo(stage) ==
    CASE stage = "embedding" -> <<"embedder">>
      [] stage = "clustering" -> <<"embedder", "clusterer">>
      [] OTHER -> <<"embedder", "clusterer", "summarizer">>

\* faulty variant of ExceptHandler: the exception leaves analyze_events
ExceptHandlerReraises(st, exc, c, calls, stage) ==
    [events |-> <<>>, stats |-> st, cache |-> c, calls |-> calls,
     raised |-> TRUE, failed_stage |-> stage, invoked |-> StagesUpTo(stage)]

\* the "except Exception as e" block of analyze_events
ExceptHandler(st, exc, c, calls, stage) ==
    [events |-> <<>>, stats |-> AddKey(st, "error", exc), cache |-> c, calls |-> calls,
     raised |-> FALSE, failed_stage |-> stage, invoked |-> StagesUpTo(stage)]

\* faulty variant of EmptyResult: the empty list is handed to the embedder, which
\* starts from a fresh cache
EmptyResultResetsCache(c) ==
    [events |-> <<>>, stats |-> [total_news |-> 0, events_detected |-> 0],
     cache |-> EmptyDict, calls |-> <<>>, raised |-> FALSE, failed_stage |-> "none",
     invoked |-> <<"embedder">>]

\* the result analyze_events returns on an empty list: no component is called
EmptyResult(c) ==
    [events |-> <<>>, stats |-> [total_news |-> 0, events_detected |-> 0],
     cache |-> c, calls |-> <<>>, raised |-> FALSE, failed_stage |-> "none",
     invoked |-> <<>>]

\* stats["clusters_detected"] = len(news_clusters)
ClustersDetected(news_clusters) == Len(news_clusters)

\* the clusters with len(cluster) >= MIN_EVENT_SIZE
FilterSmall(news_clusters) ==
    SubSeqAt(news_clusters,
             {k \in 1..Len(news_clusters) : Len(news_clusters[k]) >= MIN_EVENT_SIZE})

\* analyze_events(news_list) on cache c; modelFails: the embedding model throws
\* when called; nows: the clock readings of the summarizer
AnalyzeEvents(news_list, c, modelFails, nows) ==
    IF news_list = <<>> THEN EmptyResult(c)
    ELSE
    LET stats0 == [total_news |-> Len(news_list)]
        emb    == EmbedNews(news_list, c, modelFails)
    IN  IF emb.raised THEN ExceptHandler(stats0, emb.exc, emb.cache, emb.calls, "embedding")
        ELSE
        LET stats1 == AddKey(stats0, "embedding_completed", TRUE)
            clu    == ClusterNews(news_list, emb.value)
        IN  IF clu.raised
            THEN ExceptHandler(stats1, clu.exc, emb.cache, emb.calls, "clustering")
            ELSE
            LET stats2 == AddKey(stats1, "clusters_detected", ClustersDetected(clu.value))
                filtered_clusters == FilterSmall(clu.value)
                stats3 == AddKey(stats2, "valid_events", Len(filtered_clusters))
                sm     == SummarizeEvents(filtered_clusters, nows)
            IN  IF sm.raised
                THEN ExceptHandler(stats3, sm.exc, emb.cache, emb.calls, "summarization")
                ELSE
                LET stats4 == AddKey(stats3, "events_summarized", Len(sm.value))
                IN [events |-> sm.value,
                    stats  |-> DetailedStats(stats4, sm.value, Len(news_list)),
                    cache  |-> emb.cache, calls |-> emb.calls,
                    raised |-> FALSE, failed_stage |-> "none",
                    invoked |-> <<"embedder", "clusterer", "summarizer">>]

----------------------------------------------------------------------------
(* Decision engines: importance_evaluator.py, signal_classifier.py,
   action_mapper.py *)

\* an event that is no dict (None, a string, ...) is the record [not_a_dict |-> TRUE]:
\* event.get throws AttributeError and event["decision"] = ... throws TypeError
IsDict(event) == ~HasKey(event, "not_a_dict")

\* _avg_investment_score(event): sum(scores) / max(len(scores), 1) as a pair
AvgInvestmentScore(event) ==
    LET news_list == Get(event, "news_list", <<>>)
    IN <<SumScores(news_list), Max(Len(news_list), 1)>>

\* faulty variant of Match: the news count is compared the wrong way round
MatchAtMostMinNews(level, news_count, sources, score) ==
    LET cfg == IMPORTANCE_THRESHOLDS[level]
    IN /\ news_count <= cfg.min_news
       /\ Cardinality(sources) >= cfg.min_sources
       /\ score[1] >= cfg.min_score * score[2]

\* _match(level, news_count, sources, score)
Match(level, news_count, sources, score) ==
    LET cfg == IMPORTANCE_THRESHOLDS[level]
    IN /\ news_count >= cfg.min_news
       /\ Cardinality(sources) >= cfg.min_sources
       /\ score[1] >= cfg.min_score * score[2]

\* the body of evaluate's try block throws: the event is no dict, or sum() meets
\* a None score
EvaluateThrows(event) ==
    \/ ~IsDict(event)
    \/ LET news_list == Get(event, "news_list", <<>>)
       IN \E i \in 1..Len(news_list) : IsNone(news_list[i], "investment_score")

\* faulty variant of Evaluate: a failed evaluation is rated Medium
EvaluateDefaultsToMedium(event) ==
    IF EvaluateThrows(event) THEN "Medium"
    ELSE LET news_count == Get(event, "news_count", 0)
             sources    == Get(event, "sources", {})
             avg_score  == AvgInvestmentScore(event)
         IN IF Match("high", news_count, sources, avg_score) THEN "High"
            ELSE IF Match("medium", news_count, sources, avg_score) THEN "Medium"
            ELSE "Low"

\* faulty variant of Evaluate: the medium tier is tested before the high tier
EvaluateMediumFirst(event) ==
    IF EvaluateThrows(event) THEN "Low"
    ELSE LET news_count == Get(event, "news_count", 0)
             sources    == Get(event, "sources", {})
             avg_score  == AvgInvestmentScore(event)
         IN IF Match("medium", news_count, sources, avg_score) THEN "Medium"
            ELSE IF Match("high", news_count, sources, avg_score) THEN "High"
            ELSE "Low"

\* EventImportanceEvaluator.evaluate(event)
Evaluate(event) ==
    IF EvaluateThrows(event) THEN "Low"
    ELSE LET news_count == Get(event, "news_count", 0)
             sources    == Get(event, "sources", {})
             avg_score  == AvgInvestmentScore(event)
         IN IF Match("high", news_count, sources, avg_score) THEN "High"
            ELSE IF Match("medium", news_count, sources, avg_score) THEN "Medium"
            ELSE "Low"

\* _collect_signals(event)
CollectSignals(event) ==
    LET news_list == Get(event, "news_list", <<>>)
    IN UNION {Get(news_list[i], "signals", {}) : i \in 1..Len(news_list)}

\* the body of classify's try block throws: the event is no dict, or
\* collected.update() meets a None signals value
ClassifyThrows(event) ==
    \/ ~IsDict(event)
    \/ LET news_list == Get(event, "news_list", <<>>)
       IN \E i \in 1..Len(news_list) : IsNone(news_list[i], "signals")

\* faulty variant of Classify: a mixed signal is classified as Risk
ClassifyMixedAsRisk(event) ==
    IF ClassifyThrows(event) THEN "Neutral"
    ELSE LET signals == CollectSignals(event)
             has_positive == (signals \cap POSITIVE_SIGNALS) # {}
             has_risk == (signals \cap RISK_SIGNALS) # {}
         IN IF has_positive /\ ~has_risk THEN "Positive"
            ELSE IF has_risk THEN "Risk"
            ELSE "Neutral"

\* EventSignalClassifier.classify(event)
Classify(event) ==
    IF ClassifyThrows(event) THEN "Neutral"
    ELSE LET signals == CollectSignals(event)
             has_positive == (signals \cap POSITIVE_SIGNALS) # {}
             has_risk == (signals \cap RISK_SIGNALS) # {}
         IN IF has_positive /\ ~has_risk THEN "Positive"
            ELSE IF has_risk /\ ~has_positive THEN "Risk"
            ELSE IF has_positive /\ has_risk THEN "Neutral"
            ELSE "Neutral"

\* faulty variant of ClampImportance: an invalid importance becomes Medium
ClampImportanceToMedium(importance) ==
    IF importance \notin {"High", "Medium", "Low"} THEN "Medium" ELSE importance

\* the two clamps of EventActionMapper.map
ClampImportance(importance) ==
    IF importance \notin {"High", "Medium", "Low"} THEN "Low" ELSE importance

ClampSignal(signal) ==
    IF signal \notin {"Positive", "Neutral", "Risk"} THEN "Neutral" ELSE signal

\* EventActionMapper.map(importance, signal)
MapAction(importance, signal) ==
    LET imp == ClampImportance(importance)
        sig == ClampSignal(signal)
    IN IF imp = "High"
       THEN (IF sig = "Positive" THEN "Hold" ELSE IF sig = "Risk" THEN "Avoid" ELSE "Watch")
       ELSE IF imp = "Medium"
       THEN (IF sig = "Positive" THEN "Watch" ELSE IF sig = "Risk" THEN "Avoid" ELSE "Watch")
       ELSE "Avoid"

----------------------------------------------------------------------------
(* EventDecisionPipeline: decision_pipeline.py *)

\* faulty variant of DecisionOf: an event that carries a decision is rated Low
DecisionOfDowngradesDecided(event) ==
    LET importance == IF HasKey(event, "decision") THEN "Low" ELSE Evaluate(event)
        signal == Classify(event)
    IN [importance |-> importance, signal |-> signal,
        action |-> MapAction(importance, signal)]

\* the decision dict built for one event
DecisionOf(event) ==
    LET importance == Evaluate(event)
        signal == Classify(event)
    IN [importance |-> importance, signal |-> signal,
        action |-> MapAction(importance, signal)]

RECURSIVE DecideFrom(_, _, _)
\* the loop of decide from event i on; an event that is no dict makes
\* event["decision"] = ... throw, and decide has no handler
DecideFrom(evs, i, decided_events) ==
    IF i > Len(evs)
    THEN [raised |-> FALSE, events |-> evs, decided |-> decided_events]
    ELSE IF ~IsDict(evs[i])
    THEN [raised |-> TRUE, events |-> evs, decided |-> <<>>]
    ELSE LET e == AddKey(evs[i], "decision", DecisionOf(evs[i]))
         IN DecideFrom([evs EXCEPT ![i] = e], i + 1, Append(decided_events, e))

\* decide(events): the caller's list after the call and the list returned
Decide(evs) == DecideFrom(evs, 1, <<>>)

\* the stats dict decide_with_stats starts from
InitialDecisionStats(n) ==
    [total_events |-> n, success_count |-> 0, error_count |-> 0,
     importance_distribution |-> [High |-> 0, Medium |-> 0, Low |-> 0],
     signal_distribution |-> [Positive |-> 0, Neutral |-> 0, Risk |-> 0],
     action_distribution |-> [Watch |-> 0, Hold |-> 0, Avoid |-> 0],
     errors |-> <<>>]

\* the three "+= 1" of the try block, which run before event["decision"] is set
CountDecision(st, d) ==
    [st EXCEPT !.importance_distribution[d.importance] = @ + 1,
               !.signal_distribution[d.signal] = @ + 1,
               !.action_distribution[d.action] = @ + 1]

\* faulty variant of DecideOneOk: the importance is also written on the event
DecideOneOkFlattensDecision(state, i) ==
    LET d == DecisionOf(state.events[i])
        e == AddKey(AddKey(state.events[i], "decision", d), "importance", d.importance)
    IN [events  |-> [state.events EXCEPT ![i] = e],
        decided |-> Append(state.decided, e),
        stats   |-> [CountDecision(state.stats, d) EXCEPT !.success_count = @ + 1]]

\* the try block of one iteration when nothing throws
DecideOneOk(state, i) ==
    LET d == DecisionOf(state.events[i])
        e == AddKey(state.events[i], "decision", d)
    IN [events  |-> [state.events EXCEPT ![i] = e],
        decided |-> Append(state.decided, e),
        stats   |-> [CountDecision(state.stats, d) EXCEPT !.success_count = @ + 1]]

\* faulty variant of DecideOneFailed: the failed event is not kept in the output
DecideOneFailedDropsEvent(state, i) ==
    [events  |-> state.events,
     decided |-> state.decided,
     stats   |-> [state.stats EXCEPT
                     !.error_count = @ + 1,
                     !.errors = Append(@, <<i, Len(state.events), "TypeError">>)]]

\* one iteration whose try block throws at event["decision"] = ...: the except block
DecideOneFailed(state, i) ==
    LET d == DecisionOf(state.events[i])
    IN [events  |-> state.events,
        decided |-> Append(state.decided, state.events[i]),
        stats   |-> [CountDecision(state.stats, d) EXCEPT
                        !.error_count = @ + 1,
                        !.errors = Append(@, <<i, Len(state.events), "TypeError">>)]]

RECURSIVE DecideWithStatsFrom(_, _)
\* the loop of decide_with_stats from event i on
DecideWithStatsFrom(state, i) ==
    IF i > Len(state.events) THEN state
    ELSE IF IsDict(state.events[i])
         THEN DecideWithStatsFrom(DecideOneOk(state, i), i + 1)
         ELSE DecideWithStatsFrom(DecideOneFailed(state, i), i + 1)

\* faulty variant of DecideWithStats: the success rate is not computed
DecideWithStatsWithoutRate(evs) ==
    IF evs = <<>>
    THEN [events |-> evs, decided |-> <<>>,
          stats |-> [total_events |-> 0, success_count |-> 0, error_count |-> 0]]
    ELSE DecideWithStatsFrom(
            [events |-> evs, decided |-> <<>>,
             stats |-> InitialDecisionStats(Len(evs))], 1)

\* decide_with_stats(events)
DecideWithStats(evs) ==
    IF evs = <<>>
    THEN [events |-> evs, decided |-> <<>>,
          stats |-> [total_events |-> 0, success_count |-> 0, error_count |-> 0]]
    ELSE LET done == DecideWithStatsFrom(
                        [events |-> evs, decided |-> <<>>,
                         stats |-> InitialDecisionStats(Len(evs))], 1)
         IN [done EXCEPT !.stats =
                AddKey(@, "success_rate",
                       <<done.stats.success_count, Max(done.stats.total_events, 1)>>)]

----------------------------------------------------------------------------
(* Inputs *)

\* longest text list one thread hands to embed_texts
MaxThreadTexts == 2

\* the threads that may call embed_texts on the one embedder at the same time
Threads == {1, 2}

\* a thread that runs no embed_texts call
IdleThread ==
    [pc |-> "idle", texts |-> <<>>, i |-> 1, cached_embeddings |-> <<>>,
     uncached_texts |-> <<>>, uncached_indices |-> <<>>, new_embeddings |-> <<>>,
     j |-> 1, result |-> <<>>, exc |-> ""]

\* a well-formed news item
Item(title, source, signals, companies, score) ==
    [title |-> title, content |-> "", source |-> source, date |-> 1,
     signals |-> signals, companies |-> companies, investment_score |-> score,
     none_fields |-> {}]

\* The news items a batch is drawn from: the three titles the embedding model
\* separates, items failing each condition of the validity filter, items
\* with a None investment_score (the clusterer throws) or a None content (the
\* summarizer throws), and an item without the keys signals, companies and
\* investment_score.
NewsKinds ==
    { Item("alpha", "s1", {"funding"}, {"OpenAI"}, 6),
      Item("beta",  "s2", {"lawsuit"}, {"OpenAI"}, 6),
      Item("gamma", "s1", {"funding"}, {"OpenAI"}, 3),
      Item("alpha", "s2", {}, {"OpenAI"}, 6),
      Item("gamma", "s2", {"earnings"}, {}, 6),
      Item("beta",  "s1", {"funding"}, {"OpenAI"}, 0),
      [Item("alpha", "s1", {"funding"}, {"OpenAI"}, 0)
          EXCEPT !.none_fields = {"investment_score"}],
      [Item("gamma", "s1", {"funding"}, {"OpenAI"}, 6)
          EXCEPT !.none_fields = {"content"}, !.date = 2],
      [title |-> "beta", content |-> "", source |-> "s2", date |-> 1,
       none_fields |-> {}] }

\* the readings of datetime.now() during one summarize_events call, in seconds
\* since the first: one per cluster (a batch has at most MaxNews \div
\* MIN_EVENT_SIZE clusters), each in the second of the reading before it or in
\* the next
ClockReadings ==
    { t \in [1..(MaxNews \div MIN_EVENT_SIZE) -> 0..(MaxNews \div MIN_EVENT_SIZE)] :
        /\ t[1] = 0
        /\ \A k \in 1..(MaxNews \div MIN_EVENT_SIZE - 1) : t[k + 1] - t[k] \in {0, 1} }

\* the readings of datetime.now() during a summarize_events call on n clusters
ClockReadingsOf(n) ==
    { t \in [1..n -> 0..n] :
        /\ n > 0 => t[1] = 0
        /\ \A k \in 1..(n - 1) : t[k + 1] - t[k] \in {0, 1} }

\* the items of the clusters handed directly to summarize_events: one the
\* summarizer accepts and one with a None content (the summarizer throws)
SummarizerItems ==
    { Item("alpha", "s1", {"funding"}, {"OpenAI"}, 6),
      [Item("gamma", "s1", {"funding"}, {"OpenAI"}, 6)
          EXCEPT !.none_fields = {"content"}, !.date = 2] }

\* the cluster lists handed directly to summarize_events
SummarizerClusters == UNION { [1..n -> SummarizerItems] : n \in 1..MaxClusterSize }
ClusterLists == UNION { [1..n -> SummarizerClusters] : n \in 0..MaxClusters }

\* the items handed to a long-lived embedder or pipeline: two structured prompts
\* the embedding model maps to different vectors
EmbedderItems ==
    { Item("alpha", "s1", {"funding"}, {"OpenAI"}, 6),
      Item("beta",  "s2", {"lawsuit"}, {"OpenAI"}, 6) }

\* the news lists handed to it, each item a new object; an item kind may repeat
Batches ==
    UNION { { [i \in 1..n |-> AddKey(f[i], "id", i)] : f \in [1..n -> EmbedderItems] }
            : n \in 0..MaxBatch }

\* the news lists handed to analyze_events in the cycles of a long-lived pipeline
CycleBatches == {b \in Batches : Len(b) <= MaxCycleNews}

\* the text lists the threads hand to embed_texts: structured prompts of the
\* embedder items; a prompt may repeat
ThreadTexts ==
    LET prompts == {BuildStructuredPrompt(k) : k \in EmbedderItems}
    IN UNION { [1..n -> prompts] : n \in 0..MaxThreadTexts }

\* an event dict as the decision engines read it
Event(news_count, sources, news_list) ==
    [news_count |-> news_count, sources |-> sources, news_list |-> news_list]

NotADict == [not_a_dict |-> TRUE]

\* the news items of the events handed directly to the decision engines
DecisionItems ==
    { [signals |-> sg, investment_score |-> sc, none_fields |-> {}] :
        sg \in {{}, {"funding"}, {"lawsuit"}, {"earnings", "lawsuit"}}, sc \in {0, 3, 6} }
    \cup { [signals |-> {"funding"}, investment_score |-> 0,
            none_fields |-> {"investment_score"}],
           [signals |-> {}, investment_score |-> 6, none_fields |-> {"signals"}] }

\* longest news_list of an event handed directly to a decision engine
MaxItems == 2

\* the events handed directly to evaluate and classify
EngineEvents ==
    { Event(c, src, nl) :
        c \in 0..MaxNews, src \in SUBSET {"s1", "s2"},
        nl \in UNION { [1..n -> DecisionItems] : n \in 0..MaxItems } }
    \cup { NotADict }

\* the events the decision pipeline is run on directly: one per importance
\* tier and signal, and one that is no dict
PipelineEvents ==
    LET it(sg, sc) == [signals |-> sg, investment_score |-> sc, none_fields |-> {}]
    IN { Event(3, {"s1", "s2"}, <<it({"funding"}, 6), it({"funding"}, 6), it({}, 6)>>),
         Event(2, {"s1"}, <<it({"lawsuit"}, 3), it({}, 3)>>),
         Event(1, {"s1"}, <<it({"earnings", "lawsuit"}, 6)>>),
         NotADict }

EventLists == UNION { [1..n -> PipelineEvents] : n \in 0..MaxEvents }

\* the values handed to map: the valid labels and an invalid one
ImportanceInputs == {"High", "Medium", "Low", "bogus"}
SignalInputs == {"Positive", "Neutral", "Risk", "bogus"}

----------------------------------------------------------------------------
(* State machine *)

\* the state after EventPipeline() and EventDecisionPipeline() are constructed
InitProgram ==
    /\ cache = EmptyDict
    /\ modelCalls = <<>>
    /\ labels = <<>>
    /\ stats = EmptyDict
    /\ failedStage = "none"
    /\ raised = FALSE
    /\ eventsIn = <<>>
    /\ decided = <<>>
    /\ dstats = EmptyDict
    /\ call = [op |-> "none"]
    /\ threads = [t \in Threads |-> IdleThread]

\* the label array fit_cluster computes in a run (empty when the run does not
\* reach the clusterer)
LabelsOfRun(news_list, c, modelFails) ==
    LET emb == EmbedNews(news_list, c, modelFails)
    IN IF news_list = <<>> \/ emb.raised THEN <<>> ELSE FitCluster(emb.value)

\* upstream adds one more item, a new object, to the batch it will hand over
Collect ==
    /\ pc = "ready"
    /\ Len(news) < MaxNews
    /\ \E k \in NewsKinds : news' = Append(news, AddKey(k, "id", Len(news) + 1))
    /\ UNCHANGED <<threads, pc, cache, modelCalls, labels, events, stats, failedStage,
                   raised, eventsIn, decided, dstats, call>>

\* the caller runs analyze_events(news)
Analyze ==
    /\ pc = "ready"
    /\ \E modelFails \in BOOLEAN, nows \in ClockReadings :
         \E r \in {AnalyzeEvents(news, cache, modelFails, nows)} :
            /\ events' = r.events
            /\ stats' = r.stats
            /\ cache' = r.cache
            /\ modelCalls' = modelCalls \o r.calls
            /\ failedStage' = r.failed_stage
            /\ raised' = r.raised
            /\ labels' = LabelsOfRun(news, cache, modelFails)
    /\ pc' = "events"
    /\ UNCHANGED <<threads, news, eventsIn, decided, dstats, call>>

\* the caller runs decide(events)
DecideCall ==
    /\ pc \in {"events", "decided"}
    /\ \E r \in {Decide(events)} :
          /\ events' = r.events
          /\ decided' = r.decided
          /\ raised' = r.raised
    /\ eventsIn' = events
    /\ dstats' = EmptyDict
    /\ pc' = "decided"
    /\ UNCHANGED <<threads, news, cache, modelCalls, labels, stats, failedStage, call>>

\* the caller runs decide_with_stats(events)
DecideWithStatsCall ==
    /\ pc \in {"events", "decided"}
    /\ \E r \in {DecideWithStats(events)} :
          /\ events' = r.events
          /\ decided' = r.decided
          /\ dstats' = r.stats
    /\ raised' = FALSE
    /\ eventsIn' = events
    /\ pc' = "decided"
    /\ UNCHANGED <<threads, news, cache, modelCalls, labels, stats, failedStage, call>>

\* a direct call of EventActionMapper.map
MapCall ==
    /\ pc = "ready"
    /\ \E importance \in ImportanceInputs, signal \in SignalInputs :
         call' = [op |-> "map", importance |-> importance, signal |-> signal,
                  result |-> MapAction(importance, signal)]
    /\ pc' = "called"
    /\ UNCHANGED <<threads, news, cache, modelCalls, labels, events, stats, failedStage,
                   raised, eventsIn, decided, dstats>>

\* a direct call of EventImportanceEvaluator.evaluate
EvaluateCall ==
    /\ pc = "ready"
    /\ \E e \in EngineEvents :
         call' = [op |-> "evaluate", event |-> e, result |-> Evaluate(e)]
    /\ pc' = "called"
    /\ UNCHANGED <<threads, news, cache, modelCalls, labels, events, stats, failedStage,
                   raised, eventsIn, decided, dstats>>

\* a direct call of EventSignalClassifier.classify
ClassifyCall ==
    /\ pc = "ready"
    /\ \E e \in EngineEvents :
         call' = [op |-> "classify", event |-> e, result |-> Classify(e)]
    /\ pc' = "called"
    /\ UNCHANGED <<threads, news, cache, modelCalls, labels, events, stats, failedStage,
                   raised, eventsIn, decided, dstats>>

\* a direct call of EventSummarizer.summarize_events
SummarizeCall ==
    /\ pc = "ready"
    /\ \E cl \in ClusterLists : \E nows \in ClockReadingsOf(Len(cl)) :
         \E r \in {SummarizeEvents(cl, nows)} :
            /\ call' = [op |-> "summarize_events", news_clusters |-> cl,
                        result |-> r.value]
            /\ raised' = r.raised
    /\ pc' = "called"
    /\ UNCHANGED <<threads, news, cache, modelCalls, labels, events, stats, failedStage,
                   eventsIn, decided, dstats>>

\* a call of embed_news on the embedder of a long-lived pipeline instance
EmbedNewsCall ==
    /\ pc \in {"ready", "embedded"}
    /\ Len(modelCalls) < MaxModelCalls
    /\ \E batch \in Batches, modelFails \in BOOLEAN :
         \E r \in {EmbedNews(batch, cache, modelFails)} :
            /\ call' = [op |-> "embed_news", news_list |-> batch,
                        cache_before |-> cache,
                        model_threw |-> modelFails /\ r.calls # <<>>,
                        calls |-> r.calls, result |-> r.value]
            /\ cache' = r.cache
            /\ modelCalls' = modelCalls \o r.calls
            /\ raised' = r.raised
    /\ pc' = "embedded"
    /\ UNCHANGED <<threads, news, labels, events, stats, failedStage, eventsIn, decided, dstats>>

\* a call of analyze_events on a long-lived pipeline instance: a later cycle
AnalyzeBatch ==
    /\ pc \in {"ready", "events"}
    /\ Len(modelCalls) < MaxModelCalls
    /\ \E batch \in CycleBatches, modelFails \in BOOLEAN :
         \E nows \in ClockReadingsOf(Len(batch) \div MIN_EVENT_SIZE) :
         \E r \in {AnalyzeEvents(batch, cache, modelFails, nows)} :
            /\ call' = [op |-> "analyze_events", news_list |-> batch,
                        cache_before |-> cache,
                        calls |-> r.calls, invoked |-> r.invoked]
            /\ news' = batch
            /\ events' = r.events
            /\ stats' = r.stats
            /\ cache' = r.cache
            /\ modelCalls' = modelCalls \o r.calls
            /\ failedStage' = r.failed_stage
            /\ raised' = r.raised
            /\ labels' = LabelsOfRun(batch, cache, modelFails)
    /\ pc' = "events"
    /\ UNCHANGED <<threads, eventsIn, decided, dstats>>

\* where thread t goes after the lookup of text i: to the next text, or past
\* the loop to "if uncached_texts:"
AfterLookup(texts, i, uncached_texts) ==
    IF i < Len(texts) THEN "lookup"
    ELSE IF uncached_texts # <<>> THEN "encode" ELSE "merge"

\* thread t calls embed_texts(texts) on the shared embedder
StartCall(t) ==
    /\ threads[t].pc = "idle"
    /\ \E texts \in ThreadTexts :
          threads' = [threads EXCEPT ![t] =
                        [IdleThread EXCEPT !.texts = texts,
                                           !.pc = IF texts = <<>> THEN "done" ELSE "lookup"]]
    /\ UNCHANGED <<pc, news, cache, modelCalls, labels, events, stats, failedStage,
                   raised, eventsIn, decided, dstats, call>>

\* thread t tests "cache_key in self._embedding_cache" for its text i; on a miss
\* it appends the text and the index to its uncached lists
LookupStep(t) ==
    /\ threads[t].pc = "lookup"
    /\ \E th \in {threads[t]} :
          IF HasKey(cache, GenerateCacheKey(th.texts[th.i]))
          THEN threads' = [threads EXCEPT ![t].pc = "read"]
          ELSE \E misses \in {Append(th.uncached_texts, th.texts[th.i])} :
                  threads' = [threads EXCEPT ![t] =
                      [th EXCEPT !.uncached_texts = misses,
                                 !.uncached_indices = Append(@, th.i),
                                 !.i = @ + 1,
                                 !.pc = AfterLookup(th.texts, th.i, misses)]]
    /\ UNCHANGED <<pc, news, cache, modelCalls, labels, events, stats, failedStage,
                   raised, eventsIn, decided, dstats, call>>

\* thread t reads self._embedding_cache[cache_key] after a hit and appends it
\* to cached_embeddings; a key that is gone raises KeyError
ReadStep(t) ==
    /\ threads[t].pc = "read"
    /\ \E th \in {threads[t]} :
          IF HasKey(cache, GenerateCacheKey(th.texts[th.i]))
          THEN threads' = [threads EXCEPT ![t] =
                  [th EXCEPT !.cached_embeddings =
                                 Append(@, cache[GenerateCacheKey(th.texts[th.i])]),
                             !.i = @ + 1,
                             !.pc = AfterLookup(th.texts, th.i, th.uncached_texts)]]
          ELSE threads' = [threads EXCEPT ![t].pc = "raised", ![t].exc = "KeyError"]
    /\ UNCHANGED <<pc, news, cache, modelCalls, labels, events, stats, failedStage,
                   raised, eventsIn, decided, dstats, call>>

\* thread t runs self.model.encode(uncached_texts); the model may throw, and
\* the exception leaves embed_texts
EncodeStep(t) ==
    /\ threads[t].pc = "encode"
    /\ \E th \in {threads[t]}, modelFails \in BOOLEAN :
          /\ modelCalls' = Append(modelCalls, th.uncached_texts)
          /\ IF modelFails
             THEN threads' = [threads EXCEPT ![t].pc = "raised", ![t].exc = "ModelError"]
             ELSE threads' = [threads EXCEPT ![t] =
                     [th EXCEPT !.new_embeddings =
                                    [k \in 1..Len(th.uncached_texts) |->
                                        Encode(th.uncached_texts[k])],
                                !.pc = "store"]]
    /\ UNCHANGED <<pc, news, cache, labels, events, stats, failedStage,
                   raised, eventsIn, decided, dstats, call>>

\* thread t writes the j-th new embedding to the cache
StoreStep(t) ==
    /\ threads[t].pc = "store"
    /\ \E th \in {threads[t]} :
          /\ cache' = StoreOne(cache, th.uncached_texts, th.new_embeddings, th.j)
          /\ threads' = [threads EXCEPT ![t] =
                [th EXCEPT !.j = @ + 1,
                           !.pc = IF th.j < Len(th.uncached_texts) THEN "store" ELSE "merge"]]
    /\ UNCHANGED <<pc, news, modelCalls, labels, events, stats, failedStage,
                   raised, eventsIn, decided, dstats, call>>

\* thread t merges its cached and its new embeddings and returns
MergeStep(t) ==
    /\ threads[t].pc = "merge"
    /\ \E th \in {threads[t]} :
          threads' = [threads EXCEPT ![t] =
              [th EXCEPT !.result = MergeEmbeddings(Len(th.texts), Range(th.uncached_indices),
                                                    th.cached_embeddings, th.new_embeddings),
                         !.pc = "done"]]
    /\ UNCHANGED <<pc, news, cache, modelCalls, labels, events, stats, failedStage,
                   raised, eventsIn, decided, dstats, call>>

\* One monitoring cycle: analyze_events on a news list, then the decision stage.
Init == InitProgram /\ pc = "ready" /\ news = <<>> /\ events = <<>>
Next == Collect \/ Analyze \/ DecideCall \/ DecideWithStatsCall
Spec == Init /\ [][Next]_vars

\* The decision pipeline run directly on an event list.
InitDecision == InitProgram /\ pc = "events" /\ news = <<>> /\ events \in EventLists
NextDecision == DecideCall \/ DecideWithStatsCall
SpecDecision == InitDecision /\ [][NextDecision]_vars

\* The three decision engines called directly.
InitEngines == InitProgram /\ pc = "ready" /\ news = <<>> /\ events = <<>>
NextEngines == MapCall \/ EvaluateCall \/ ClassifyCall
SpecEngines == InitEngines /\ [][NextEngines]_vars

\* The summarizer called directly.
InitSummarizer == InitProgram /\ pc = "ready" /\ news = <<>> /\ events = <<>>
NextSummarizer == SummarizeCall
SpecSummarizer == InitSummarizer /\ [][NextSummarizer]_vars

\* One TextEmbedder instance, and its cache, used for several embed_news calls.
InitEmbedder == InitProgram /\ pc = "ready" /\ news = <<>> /\ events = <<>>
NextEmbedder == EmbedNewsCall
SpecEmbedder == InitEmbedder /\ [][NextEmbedder]_vars

\* One EventPipeline instance, and its embedder and cache, used over several
\* monitoring cycles.
InitCycles == InitProgram /\ pc = "ready" /\ news = <<>> /\ events = <<>>
NextCycles == AnalyzeBatch
SpecCycles == InitCycles /\ [][NextCycles]_vars

\* Two threads, each running one embed_texts call on the same TextEmbedder with
\* no lock: a step is one cache lookup, one cache read, the model call, one
\* cache write, or the merge of a call's local lists.
InitConcurrent == InitProgram /\ pc = "ready" /\ news = <<>> /\ events = <<>>
NextConcurrent ==
    \E t \in Threads :
        \/ StartCall(t)
        \/ LookupStep(t)
        \/ ReadStep(t)
        \/ EncodeStep(t)
        \/ StoreStep(t)
        \/ MergeStep(t)
SpecConcurrent == InitConcurrent /\ [][NextConcurrent]_vars

----------------------------------------------------------------------------
(* Properties *)

\* the last analyze_events call has returned and no decision call has run since
AfterAnalyze == pc = "events"

\* the statistics of the last analyze_events call are in stats
Analyzed == pc \in {"events", "decided"}

\* the last analyze_events call ran all three stages without an exception
RunSucceeded == Analyzed /\ news # <<>> /\ failedStage = "none"

\* what str(e) names for the failure of each stage in the model
ErrorOfStage(stage) ==
    CASE stage = "embedding" -> "ModelError"
      [] stage = "clustering" -> "TypeError"
      [] stage = "summarization" -> "AttributeError"
      [] OTHER -> ""

\* C1: analyze_events never raises to its caller; when the embedding, the
\* clustering or the summarization stage throws on a non-empty input, it returns
\* an empty event list and stats holding total_news = len(input) and an "error"
\* entry describing the failure.
C1_AnalyzeNeverRaises ==
    AfterAnalyze =>
        /\ ~raised
        /\ failedStage # "none" =>
              /\ news # <<>>
              /\ events = <<>>
              /\ HasKey(stats, "total_news") /\ stats.total_news = Len(news)
              /\ HasKey(stats, "error") /\ stats.error = ErrorOfStage(failedStage)

\* C1 witness: the summarizer threw in a run whose embedding and clustering
\* succeeded, and the run returned an error record
C1_Witness ==
    /\ AfterAnalyze
    /\ failedStage = "summarization"
    /\ HasKey(stats, "error")
    /\ HasKey(stats, "valid_events") /\ stats.valid_events >= 1

\* the last call was decide_with_stats on a non-empty list
AfterDecideWithStats == pc = "decided" /\ HasKey(dstats, "errors")

\* the positions of the input events at which the decision step threw
FailedPositions == {i \in 1..Len(eventsIn) : ~IsDict(eventsIn[i])}

\* C2: decide_with_stats isolates failures per event: an event whose decision
\* step throws is in the output at its input position, unchanged and without a
\* decision, exactly one message per failed event is in stats["errors"], and
\* every other event, also behind a failed one, is decided.
C2_FailureIsolatedPerEvent ==
    AfterDecideWithStats =>
        /\ Len(decided) = Len(eventsIn)
        /\ \A i \in 1..Len(eventsIn) :
              IF i \in FailedPositions
              THEN /\ i <= Len(decided)
                   /\ decided[i] = eventsIn[i]
                   /\ ~HasKey(decided[i], "decision")
              ELSE /\ i <= Len(decided)
                   /\ HasKey(decided[i], "decision")
                   /\ decided[i].decision.importance \in {"High", "Medium", "Low"}
                   /\ decided[i].decision.signal \in {"Positive", "Neutral", "Risk"}
                   /\ decided[i].decision.action \in {"Watch", "Hold", "Avoid"}
        /\ Len(dstats.errors) = Cardinality(FailedPositions)
        /\ \A i \in FailedPositions :
              Cardinality({k \in 1..Len(dstats.errors) : dstats.errors[k][1] = i}) = 1

\* C2 witness: the first of three events failed and the two behind it were decided
C2_Witness ==
    /\ AfterDecideWithStats
    /\ Len(eventsIn) = 3
    /\ FailedPositions = {1}
    /\ Len(dstats.errors) = 1
    /\ HasKey(decided[2], "decision") /\ HasKey(decided[3], "decision")

\* the value of a field of an item, or the given value when the item lacks it
FieldOr(item, key, missing) == IF key \in DOMAIN item THEN item[key] ELSE missing

\* the event-validity criteria of a cluster, as the specification states them
AcceptedByFilter(cluster) ==
    /\ Len(cluster) >= MIN_EVENT_SIZE
    /\ Cardinality(UNION {FieldOr(cluster[i], "companies", {}) : i \in 1..Len(cluster)}) >= 1
    /\ Cardinality(UNION {FieldOr(cluster[i], "signals", {}) : i \in 1..Len(cluster)}) >= 1
    /\ \A i \in 1..Len(cluster) : ~IsNone(cluster[i], "investment_score")
    /\ SumSeq([i \in 1..Len(cluster) |-> FieldOr(cluster[i], "investment_score", 0)])
          >= 3 * Len(cluster)

\* the members of event e are exactly the items labelled l, in list order
IsClusterOf(e, l) ==
    /\ Len(e.news_list) = Cardinality({i \in 1..Len(news) : labels[i] = l})
    /\ \A m \in 1..Len(e.news_list) :
          /\ e.news_list[m].id \in 1..Len(labels)
          /\ labels[e.news_list[m].id] = l
          /\ news[e.news_list[m].id] = e.news_list[m]
    /\ \A m \in 1..(Len(e.news_list) - 1) : e.news_list[m].id < e.news_list[m + 1].id

\* C3: every Event of a run has news_count = len(news_list) >= MIN_EVENT_SIZE,
\* and its news_list is one non-noise cluster that the event-validity filter
\* accepts: no noise item and no item of a rejected cluster is in any Event.
C3_EventsAreAcceptedClusters ==
    Analyzed =>
        \A k \in 1..Len(events) :
            /\ events[k].news_count = Len(events[k].news_list)
            /\ events[k].news_count >= MIN_EVENT_SIZE
            /\ \A m \in 1..Len(events[k].news_list) :
                  labels[events[k].news_list[m].id] # -1
            /\ \E l \in Range(labels) : l # -1 /\ IsClusterOf(events[k], l)
            /\ AcceptedByFilter(events[k].news_list)

\* C3 witness: a run with an event and with a raw, non-noise cluster that is in
\* no event
C3_Witness ==
    /\ AfterAnalyze
    /\ Len(events) >= 1
    /\ \E i \in 1..Len(labels) :
          /\ labels[i] # -1
          /\ \A k \in 1..Len(events) : \A m \in 1..Len(events[k].news_list) :
                events[k].news_list[m].id # i

\* the table of the specification: importance x signal -> action
ActionTable ==
    [High   |-> [Positive |-> "Hold",  Neutral |-> "Watch", Risk |-> "Avoid"],
     Medium |-> [Positive |-> "Watch", Neutral |-> "Watch", Risk |-> "Avoid"],
     Low    |-> [Positive |-> "Avoid", Neutral |-> "Avoid", Risk |-> "Avoid"]]

\* C4: map is total and equals the table after clamping: an invalid importance
\* counts as Low, an invalid signal as Neutral.
C4_MapIsClampedTable ==
    call.op = "map" =>
        LET imp == IF call.importance \in DOMAIN ActionTable THEN call.importance ELSE "Low"
            sig == IF call.signal \in DOMAIN ActionTable.Low THEN call.signal ELSE "Neutral"
        IN /\ call.result \in {"Watch", "Hold", "Avoid"}
           /\ call.result = ActionTable[imp][sig]

\* C4 witness: map called with an invalid importance and a Positive signal
C4_Witness ==
    /\ call.op = "map"
    /\ call.importance = "bogus"
    /\ call.signal = "Positive"
    /\ call.result = "Avoid"

\* the event handed to the last direct engine call is a dict whose items all
\* carry a number as investment_score
WellFormedCallEvent ==
    /\ IsDict(call.event)
    /\ \A i \in 1..Len(call.event.news_list) :
          ~IsNone(call.event.news_list[i], "investment_score")

\* all three conditions of a tier hold for the event of the last call; the mean
\* of an empty news_list is 0
TierHolds(tier) ==
    LET e == call.event
        n == Len(e.news_list)
        total == SumSeq([i \in 1..n |-> e.news_list[i].investment_score])
    IN /\ e.news_count >= IMPORTANCE_THRESHOLDS[tier].min_news
       /\ Cardinality(e.sources) >= IMPORTANCE_THRESHOLDS[tier].min_sources
       /\ IF n = 0 THEN 0 >= IMPORTANCE_THRESHOLDS[tier].min_score
          ELSE total >= IMPORTANCE_THRESHOLDS[tier].min_score * n

\* C5: evaluate returns High exactly when the three high-tier conditions hold,
\* otherwise Medium exactly when the three medium-tier conditions hold,
\* otherwise Low.
C5_ImportanceTiers ==
    (call.op = "evaluate" /\ WellFormedCallEvent) =>
        /\ (call.result = "High") <=> TierHolds("high")
        /\ (call.result = "Medium") <=> (~TierHolds("high") /\ TierHolds("medium"))
        /\ (call.result = "Low") <=> (~TierHolds("high") /\ ~TierHolds("medium"))

\* C5 witness: an event meeting both tiers on news and sources whose mean score
\* meets only the medium tier, evaluated as Medium
C5_Witness ==
    /\ call.op = "evaluate"
    /\ WellFormedCallEvent
    /\ call.event.news_count >= 3
    /\ Cardinality(call.event.sources) = 2
    /\ ~TierHolds("high") /\ TierHolds("medium")
    /\ call.result = "Medium"

\* some item of the event of the last call has the value None under the key
CallEventHasNone(key) ==
    \E i \in 1..Len(call.event.news_list) : key \in call.event.news_list[i].none_fields

\* some item of the event of the last call carries a tag of the set S
CallEventHasSignalIn(S) ==
    \E i \in 1..Len(call.event.news_list) : call.event.news_list[i].signals \cap S # {}

\* C6: classify returns Positive iff the union of the signals meets
\* POSITIVE_SIGNALS and not RISK_SIGNALS, Risk iff it meets RISK_SIGNALS and not
\* POSITIVE_SIGNALS, and Neutral when it meets both or neither.
C6_SignalDecisionTable ==
    (call.op = "classify" /\ IsDict(call.event) /\ ~CallEventHasNone("signals")) =>
        LET pos == CallEventHasSignalIn(POSITIVE_SIGNALS)
            risk == CallEventHasSignalIn(RISK_SIGNALS)
        IN /\ (call.result = "Positive") <=> (pos /\ ~risk)
           /\ (call.result = "Risk") <=> (risk /\ ~pos)
           /\ (call.result = "Neutral") <=> ((pos /\ risk) \/ (~pos /\ ~risk))

\* C6 witness: the union of the signals is {earnings, lawsuit} and the event is
\* classified Neutral
C6_Witness ==
    /\ call.op = "classify"
    /\ IsDict(call.event)
    /\ UNION {call.event.news_list[i].signals : i \in 1..Len(call.event.news_list)}
          = {"earnings", "lawsuit"}
    /\ call.result = "Neutral"

\* C7: the events of one summarize_events call have pairwise distinct event_id
\* values, also when several are summarized within the same second.
C7_EventIdsDistinct ==
    Analyzed =>
        \A i \in 1..Len(events) : \A j \in 1..Len(events) :
            i # j => events[i].event_id # events[j].event_id

\* C8: for a news list with fewer than MIN_EVENT_SIZE items analyze_events
\* returns no events and stats in which events_detected = 0.
C8_FewItemsNoEventsDetected ==
    (AfterAnalyze /\ Len(news) < MIN_EVENT_SIZE) =>
        /\ events = <<>>
        /\ HasKey(stats, "events_detected")
        /\ stats.events_detected = 0

\* the number of raw clusters of the last run: the non-noise labels
RawClusterCount == Cardinality(Range(labels) \ {-1})

\* C9: the stats of a successful run report the number of raw clusters, before
\* the validity filter, apart from the number that survive it.
C9_RawClustersReported ==
    RunSucceeded =>
        /\ HasKey(stats, "clusters_detected")
        /\ stats.clusters_detected = RawClusterCount
        /\ HasKey(stats, "valid_events")
        /\ stats.valid_events = Len(events)

SizeStatKeys ==
    {"total_news_in_events", "coverage_rate", "min_event_size", "avg_event_size",
     "max_event_size"}

\* C10 as stated: every run that completes without an exception on a non-empty
\* input, also one with zero events, returns the news total of the events, the
\* coverage rate and the min/avg/max event size.
C10_SizeStatsAlways ==
    (AfterAnalyze /\ RunSucceeded) => SizeStatKeys \subseteq DOMAIN stats

\* C10 amended: such a run returns these statistics when it produces at least
\* one event, and none of them when it produces zero events.
C10_SizeStatsIffEvents ==
    (AfterAnalyze /\ RunSucceeded) =>
        IF events = <<>>
        THEN SizeStatKeys \cap DOMAIN stats = {}
        ELSE LET sizes == [k \in 1..Len(events) |-> Len(events[k].news_list)]
             IN /\ SizeStatKeys \subseteq DOMAIN stats
                /\ stats.total_news_in_events = SumSeq(sizes)
                /\ stats.coverage_rate = <<SumSeq(sizes), Len(news)>>
                /\ stats.avg_event_size = <<SumSeq(sizes), Len(events)>>
                /\ \A k \in 1..Len(events) :
                      stats.min_event_size <= sizes[k] /\ sizes[k] <= stats.max_event_size
                /\ \E k \in 1..Len(events) : stats.min_event_size = sizes[k]
                /\ \E k \in 1..Len(events) : stats.max_event_size = sizes[k]

\* C10 witness: a run with one event of three of its four items
C10_Witness ==
    /\ AfterAnalyze /\ RunSucceeded
    /\ Len(events) = 1
    /\ HasKey(stats, "coverage_rate")
    /\ stats.coverage_rate = <<3, 4>>

\* C11: the list summarize_events returns is sorted in non-increasing order of
\* news_count: each returned event has at least as many news as the one after it.
C11_SortedByNewsCount ==
    (call.op = "summarize_events" /\ ~raised) =>
        \A k \in 1..(Len(call.result) - 1) :
            call.result[k].news_count >= call.result[k + 1].news_count

\* C11 witness: a smaller cluster handed over ahead of a larger one, and the
\* event of the larger one returned first
C11_Witness ==
    /\ call.op = "summarize_events" /\ ~raised
    /\ Len(call.news_clusters) >= 2
    /\ Len(call.news_clusters[1]) < Len(call.news_clusters[2])
    /\ Len(call.result) = Len(call.news_clusters)
    /\ call.result[1].news_list = call.news_clusters[2]

\* the structured prompts of the news list of the last call
PromptsOfCall ==
    [i \in 1..Len(call.news_list) |-> BuildStructuredPrompt(call.news_list[i])]

\* the prompt of item i was in the cache when the last call started
WasCached(i) == HasKey(call.cache_before, GenerateCacheKey(PromptsOfCall[i]))

\* C12: the embedder's output is aligned with its input: for every input list
\* and every cache state, duplicates within the batch included, the call returns
\* as many vectors as items and the i-th vector is the embedding of the i-th
\* item's structured prompt.
C12_OutputAlignedWithInput ==
    (call.op = "embed_news" /\ ~raised) =>
        /\ Len(call.result) = Len(call.news_list)
        /\ \A i \in 1..Len(call.news_list) : call.result[i] = Encode(PromptsOfCall[i])

\* C12 witness: a batch of a miss, a hit and a repetition of the miss, embedded
\* with the vector of the cache for the hit and another for the misses
C12_Witness ==
    /\ call.op = "embed_news" /\ ~raised
    /\ Len(call.news_list) = 3
    /\ ~WasCached(1) /\ WasCached(2) /\ ~WasCached(3)
    /\ PromptsOfCall[1] = PromptsOfCall[3]
    /\ Len(call.result) = 3
    /\ call.result[1] # call.result[2]
    /\ call.result[2] = call.cache_before[GenerateCacheKey(PromptsOfCall[2])]

\* C13: while the cache is never cleared, no prompt is passed to the embedding
\* model more than once: no text of a batch sent to the model was embedded by
\* an earlier call, and none stands earlier in the same batch.
C13_NoPromptEmbeddedTwice ==
    call.op = "embed_news" =>
        \A b \in 1..Len(call.calls) : \A i \in 1..Len(call.calls[b]) :
            /\ ~HasKey(call.cache_before, GenerateCacheKey(call.calls[b][i]))
            /\ \A j \in 1..(i - 1) : call.calls[b][j] # call.calls[b][i]

\* the texts that were cache misses when the last call started, in input order
MissesOfCall == SubSeqAt(PromptsOfCall, {i \in 1..Len(call.news_list) : ~WasCached(i)})

\* C14: each embed_news call invokes the embedding model at most once, with
\* exactly the texts that were cache misses when the call started, and not at
\* all when the input is empty or every prompt is cached.
C14_OneModelCallOnMisses ==
    call.op = "embed_news" =>
        /\ Len(call.calls) <= 1
        /\ IF MissesOfCall = <<>> THEN call.calls = <<>>
           ELSE call.calls = <<MissesOfCall>>

\* C14 witness: a call on a hit and a miss that sent the miss alone to the model
C14_Witness ==
    /\ call.op = "embed_news" /\ ~raised
    /\ Len(call.news_list) = 2
    /\ WasCached(1) /\ ~WasCached(2)
    /\ call.calls = <<(<<PromptsOfCall[2]>>)>>

\* C15: when the model call throws during embed_news, the exception reaches the
\* caller after exactly one model invocation and the cache is as it was before
\* the call.
C15_ModelFailurePropagates ==
    (call.op = "embed_news" /\ call.model_threw) =>
        /\ raised
        /\ Len(call.calls) = 1
        /\ cache = call.cache_before

\* C15 witness: the model threw in a call on a hit and a miss, made with an
\* entry in the cache
C15_Witness ==
    /\ call.op = "embed_news" /\ call.model_threw /\ raised
    /\ \E i \in 1..Len(call.news_list) : WasCached(i)
    /\ \E i \in 1..Len(call.news_list) : ~WasCached(i)
    /\ cache = call.cache_before /\ cache # EmptyDict

\* C16: analyze_events on an empty list returns no events and stats with
\* total_news = 0, calls neither the embedder, the model, the clusterer nor the
\* summarizer, and leaves the embedding cache as it was.
C16_EmptyInputTouchesNothing ==
    (call.op = "analyze_events" /\ call.news_list = <<>>) =>
        /\ ~raised
        /\ events = <<>>
        /\ HasKey(stats, "total_news") /\ stats.total_news = 0
        /\ call.invoked = <<>>
        /\ call.calls = <<>>
        /\ labels = <<>>
        /\ cache = call.cache_before

\* C16 witness: an empty list analyzed by a pipeline whose cache holds entries
\* of an earlier cycle
C16_Witness ==
    /\ call.op = "analyze_events" /\ call.news_list = <<>>
    /\ call.cache_before # EmptyDict
    /\ cache = call.cache_before
    /\ modelCalls # <<>>

\* the candidate cluster of label l in the last run: its items in list order
CandidateCluster(l) == SubSeqAt(news, {i \in 1..Len(news) : labels[i] = l})

\* the four criteria on a cluster; a member without companies / signals /
\* investment_score counts as the empty set / 0
MeetsEventCriteria(cluster) ==
    /\ Len(cluster) >= MIN_EVENT_SIZE
    /\ Cardinality(UNION {FieldOr(cluster[i], "companies", {}) : i \in 1..Len(cluster)})
          >= MIN_COMPANY_COUNT
    /\ Cardinality(UNION {FieldOr(cluster[i], "signals", {}) : i \in 1..Len(cluster)})
          >= MIN_SIGNAL_COUNT
    /\ SumSeq([i \in 1..Len(cluster) |-> FieldOr(cluster[i], "investment_score", 0)])
          >= MIN_INVESTMENT_SCORE * Len(cluster)

\* C17: cluster_news keeps a candidate (non-noise) cluster if and only if it has
\* at least MIN_EVENT_SIZE members, at least MIN_COMPANY_COUNT companies and
\* MIN_SIGNAL_COUNT signal tags over its members, and a mean investment_score of
\* at least MIN_INVESTMENT_SCORE; a member missing one of these fields counts as
\* empty / 0 and causes no error.
C17_KeptIffCriteria ==
    RunSucceeded =>
        \A l \in Range(labels) \ {-1} :
            (\E k \in 1..Len(events) : events[k].news_list = CandidateCluster(l))
                <=> MeetsEventCriteria(CandidateCluster(l))

\* C17 witness: a kept cluster with a member that has none of the three fields,
\* in a run that also rejected a candidate cluster
C17_Witness ==
    /\ RunSucceeded
    /\ \E k \in 1..Len(events) : \E m \in 1..Len(events[k].news_list) :
          {"companies", "signals", "investment_score"}
              \cap DOMAIN events[k].news_list[m] = {}
    /\ \E l \in Range(labels) \ {-1} : ~MeetsEventCriteria(CandidateCluster(l))

\* an event without its decision
WithoutDecision(e) == [f \in DOMAIN e \ {"decision"} |-> e[f]]

\* C18: analyze_events and the decision stage change nothing the caller can
\* see but the "decision" key of each Event: the caller's news list keeps its
\* items, their fields and their order, and the decision stage leaves the event
\* list as long as it was and every other field of every Event, its NewsItems
\* included, as it was.
C18_OnlyDecisionChanges ==
    [][ /\ (pc = "ready" /\ pc' = "events") => news' = news
        /\ (pc \in {"events", "decided"} /\ pc' = "decided") =>
              /\ news' = news
              /\ Len(events') = Len(events)
              /\ \A k \in 1..Len(events) :
                    WithoutDecision(events'[k]) = WithoutDecision(events[k]) ]_vars

\* C18 witness: a decision call has replaced the decisions of an earlier one,
\* and the items of the events are still the items of the caller's news list
C18_Witness ==
    /\ pc = "decided" /\ ~raised
    /\ Len(events) >= 1
    /\ \A k \in 1..Len(eventsIn) : HasKey(eventsIn[k], "decision")
    /\ \A k \in 1..Len(events) :
          /\ HasKey(events[k], "decision")
          /\ \A m \in 1..Len(events[k].news_list) :
                news[events[k].news_list[m].id] = events[k].news_list[m]

\* the last call was decide and it returned
AfterDecide == pc = "decided" /\ dstats = EmptyDict /\ ~raised

\* C19: decide is idempotent: a second decide run on the list a first decide run
\* returned leaves every event with a decision equal in importance, signal and
\* action to the one the first run attached.
C19_DecideIdempotent ==
    [][ (AfterDecide /\ pc' = "decided" /\ dstats' = EmptyDict /\ eventsIn' = decided) =>
            /\ ~raised'
            /\ Len(decided') = Len(decided)
            /\ \A i \in 1..Len(decided) :
                  /\ decided'[i].decision.importance = decided[i].decision.importance
                  /\ decided'[i].decision.signal = decided[i].decision.signal
                  /\ decided'[i].decision.action = decided[i].decision.action ]_vars

\* C19 witness: decide has run on a list of events that carried decisions, a
\* High one among them, and returned them with the same decisions
C19_Witness ==
    /\ AfterDecide
    /\ Len(eventsIn) >= 2
    /\ \A i \in 1..Len(eventsIn) : HasKey(eventsIn[i], "decision")
    /\ \E i \in 1..Len(eventsIn) : eventsIn[i].decision.importance = "High"
    /\ decided = eventsIn

\* the order Low < Medium < High
Rank(importance) ==
    CASE importance = "High" -> 2
      [] importance = "Medium" -> 1
      [] OTHER -> 0

\* the sources and the mean score of the event of the last call meet the high tier
HighOnSourcesAndScore ==
    LET e == call.event
        n == Len(e.news_list)
        total == SumSeq([i \in 1..n |-> e.news_list[i].investment_score])
    IN /\ Cardinality(e.sources) >= IMPORTANCE_THRESHOLDS.high.min_sources
       /\ n > 0
       /\ total >= IMPORTANCE_THRESHOLDS.high.min_score * n

\* C20: importance is monotone in news_count: with sources and mean score fixed
\* at values meeting the high tier, an event below medium.min_news is not High
\* and one at or above high.min_news is High; and for any news counts a <= b on
\* an otherwise equal event the importance at b is not lower than at a.
C20_MonotoneInNewsCount ==
    (call.op = "evaluate" /\ IsDict(call.event)) =>
        /\ \A a \in 0..call.event.news_count :
              Rank(Evaluate([call.event EXCEPT !.news_count = a])) <= Rank(call.result)
        /\ (WellFormedCallEvent /\ HighOnSourcesAndScore) =>
              /\ call.event.news_count >= IMPORTANCE_THRESHOLDS.high.min_news
                    => call.result = "High"
              /\ call.event.news_count < IMPORTANCE_THRESHOLDS.medium.min_news
                    => call.result = "Low"

\* C20 witness: an event meeting the high tier on sources and score, rated High
\* with three news and Low with one
C20_Witness ==
    /\ call.op = "evaluate"
    /\ WellFormedCallEvent /\ HighOnSourcesAndScore
    /\ call.event.news_count = 3
    /\ call.result = "High"
    /\ Evaluate([call.event EXCEPT !.news_count = 1]) = "Low"
    /\ Evaluate([call.event EXCEPT !.news_count = 2]) = "Medium"

\* the vector the embedding model gives item i of the caller's news list
EmbeddingOfNews(i) == Encode(BuildStructuredPrompt(news[i]))

\* the cosine similarity of a and b exceeds 0.8
CosineAbove80(a, b) ==
    /\ Dot(a, b) > 0
    /\ 100 * 100 * Dot(a, b) * Dot(a, b) > 80 * 80 * Dot(a, a) * Dot(b, b)

\* scenario A: four items, pairwise above 0.8, each tagged funding / OpenAI with
\* score 0.6, all of one source
ScenarioA ==
    /\ Len(news) = 4
    /\ \A i \in 1..4 : \A j \in 1..4 : CosineAbove80(EmbeddingOfNews(i), EmbeddingOfNews(j))
    /\ \A i \in 1..4 :
          /\ FieldOr(news[i], "signals", {}) = {"funding"}
          /\ FieldOr(news[i], "companies", {}) = {"OpenAI"}
          /\ FieldOr(news[i], "investment_score", 0) = 6
          /\ news[i].none_fields = {}
          /\ news[i].source = news[1].source

\* C21: scenario A yields exactly one Event with news_count = 4, and the
\* decision stage gives it importance Medium, signal Positive and action Watch.
C21_ScenarioA ==
    (ScenarioA /\ RunSucceeded) =>
        /\ Len(events) = 1
        /\ events[1].news_count = 4
        /\ (pc = "decided" /\ ~raised) =>
              events[1].decision =
                  [importance |-> "Medium", signal |-> "Positive", action |-> "Watch"]

\* C21 witness: scenario A analyzed and decided
C21_Witness ==
    /\ ScenarioA /\ RunSucceeded
    /\ pc = "decided" /\ ~raised
    /\ Len(events) = 1
    /\ HasKey(events[1], "decision")
    /\ events[1].decision.action = "Watch"

\* the last call was decide_with_stats
AfterAnyDecideWithStats == pc = "decided" /\ HasKey(dstats, "total_events")

\* the stats hold the three distributions, one count per label, and the success rate
StatsComplete ==
    /\ {"importance_distribution", "signal_distribution", "action_distribution",
         "success_rate"} \subseteq DOMAIN dstats
    /\ DOMAIN dstats.importance_distribution = {"High", "Medium", "Low"}
    /\ DOMAIN dstats.signal_distribution = {"Positive", "Neutral", "Risk"}
    /\ DOMAIN dstats.action_distribution = {"Watch", "Hold", "Avoid"}

\* C22 as stated: for every input list, empty or not, the stats decide_with_stats
\* returns include the distribution counts per label for importance, signal and
\* action and the success rate.
C22_StatsAlwaysComplete == AfterAnyDecideWithStats => StatsComplete

\* C22 amended: for every non-empty input list they do, and the success rate is
\* success_count / total_events; for the empty list the stats are exactly
\* total_events, success_count and error_count, all 0.
C22_StatsCompleteIffNonEmpty ==
    AfterAnyDecideWithStats =>
        IF eventsIn = <<>>
        THEN dstats = [total_events |-> 0, success_count |-> 0, error_count |-> 0]
        ELSE /\ StatsComplete
             /\ dstats.total_events = Len(eventsIn)
             /\ dstats.success_rate = <<dstats.success_count, dstats.total_events>>

\* C22 witness: decide_with_stats on three events of which one failed
C22_Witness ==
    /\ AfterAnyDecideWithStats
    /\ Len(eventsIn) = 3
    /\ StatsComplete
    /\ dstats.success_rate = <<2, 3>>

\* C23: evaluate and classify never raise, whatever the event: each returns one
\* of its labels, and when its computation throws (the event is no dictionary,
\* or an item holds None where a score or a tag list is read) evaluate returns
\* Low and classify returns Neutral.
C23_EnginesNeverRaise ==
    /\ call.op = "evaluate" =>
          /\ call.result \in {"High", "Medium", "Low"}
          /\ (~IsDict(call.event) \/ CallEventHasNone("investment_score"))
                => call.result = "Low"
    /\ call.op = "classify" =>
          /\ call.result \in {"Positive", "Neutral", "Risk"}
          /\ (~IsDict(call.event) \/ CallEventHasNone("signals"))
                => call.result = "Neutral"

\* C23 witness: evaluate called on an event that meets the high tier on news
\* and sources and holds an item with a None score beside one of score 0.6
C23_Witness ==
    /\ call.op = "evaluate"
    /\ IsDict(call.event)
    /\ call.event.news_count >= 3
    /\ Cardinality(call.event.sources) = 2
    /\ CallEventHasNone("investment_score")
    /\ \E i \in 1..Len(call.event.news_list) :
          /\ call.event.news_list[i].none_fields = {}
          /\ call.event.news_list[i].investment_score = 6
    /\ call.result = "Low"

\* the clusterer ran on the caller's news list in the last analyze_events call
Clustered == Analyzed /\ labels # <<>> /\ Len(labels) = Len(news)

\* the similar-sets of the points: for each point, the points whose similarity
\* to it exceeds the threshold
SimilarSets ==
    [i \in 1..Len(news) |->
        {j \in 1..Len(news) : CosineAbove(EmbeddingOfNews(i), EmbeddingOfNews(j))}]

RECURSIVE OpenersFrom(_, _, _)
\* the points that open a cluster: visited in index order from i on, a point
\* opens one when no earlier opener has labeled it and its similar-set is
\* large enough
OpenersFrom(sim, i, earlier) ==
    IF i > Len(sim) THEN earlier
    ELSE IF /\ \A s \in earlier : i \notin sim[s]
            /\ Cardinality(sim[i]) >= MIN_CLUSTER_SIZE
         THEN OpenersFrom(sim, i + 1, earlier \cup {i})
         ELSE OpenersFrom(sim, i + 1, earlier)

\* the cluster id the opener s writes: the number of openers before it
ClusterIdOf(openers, s) == Cardinality({t \in openers : t < s})

\* C24: the greedy clustering visits the points in index order and skips
\* labeled points as seeds; an unlabeled point whose similar-set has at least
\* MIN_CLUSTER_SIZE members writes a new cluster id to the whole similar-set,
\* labeled members included, so every point ends with the id of the last
\* opener whose similar-set holds it; a point in no opener's similar-set
\* stays noise (-1).
C24_GreedyOverwrites ==
    Clustered =>
        \A sim \in {SimilarSets} : \A openers \in {OpenersFrom(sim, 1, {})} :
            \A j \in 1..Len(news) :
                \A over \in {{s \in openers : j \in sim[s]}} :
                    IF over = {}
                    THEN labels[j] = -1
                    ELSE \E s \in over :
                            /\ \A t \in over : t <= s
                            /\ labels[j] = ClusterIdOf(openers, s)

\* C24 witness: a point labeled by an earlier opener ends with the label of a
\* later one
C24_Witness ==
    /\ Clustered
    /\ \E sim \in {SimilarSets} : \E openers \in {OpenersFrom(sim, 1, {})} :
          \E j \in 1..Len(news) : \E s, t \in openers :
              /\ s < t
              /\ j \in sim[s] /\ j \in sim[t]
              /\ labels[j] = ClusterIdOf(openers, t)
              /\ labels[s] = ClusterIdOf(openers, s)
              /\ labels[s] # labels[j]

\* C25: every non-noise label of the label array the greedy clustering
\* returns is carried by at least MIN_CLUSTER_SIZE points.
C25_NoSmallRawCluster ==
    Clustered =>
        \A l \in Range(labels) \ {-1} :
            Cardinality({i \in 1..Len(labels) : labels[i] = l}) >= MIN_CLUSTER_SIZE

\* the similarity relation sim is symmetric and holds every point in its own
\* similar-set
SymmetricWithDiagonal(sim) ==
    \A i \in DOMAIN sim : i \in sim[i] /\ \A j \in sim[i] : i \in sim[j]

\* C26: over a symmetric similarity matrix whose diagonal exceeds the
\* threshold, a point ends with the noise label -1 exactly when no other point
\* is similar to it above the threshold.
C26_NoiseIffIsolated ==
    Clustered =>
        \A sim \in {SimilarSets} :
            SymmetricWithDiagonal(sim) =>
                \A j \in 1..Len(news) : (labels[j] = -1) <=> (sim[j] = {j})

\* C26 witness: a point left as noise when visited, a cluster opened by a later
\* point, and the noise label still in place at the end
C26_Witness ==
    /\ Clustered
    /\ \E sim \in {SimilarSets} :
          /\ SymmetricWithDiagonal(sim)
          /\ \E j, t \in 1..Len(news) :
                /\ j < t
                /\ sim[j] = {j} /\ labels[j] = -1
                /\ Cardinality(sim[t]) >= MIN_CLUSTER_SIZE /\ labels[t] # -1

\* the places (event, position in its news_list) where input item i appears
PlacesOf(i) ==
    {km \in (1..Len(events)) \X (1..MaxNews) :
        /\ km[2] <= Len(events[km[1]].news_list)
        /\ events[km[1]].news_list[km[2]].id = i}

\* C27: the events of one analyze_events call partition a subset of the input:
\* every input item is in the news_list of at most one event, once; so
\* total_news_in_events <= total_news and, when reported, the coverage rate is
\* in (0, 1] and min_event_size <= avg_event_size <= max_event_size.
C27_EventsPartitionSubset ==
    (Analyzed /\ ~raised) =>
        /\ \A i \in 1..Len(news) : Cardinality(PlacesOf(i)) <= 1
        /\ \A k \in 1..Len(events) : \A m \in 1..Len(events[k].news_list) :
              events[k].news_list[m].id \in 1..Len(news)
        /\ HasKey(stats, "total_news_in_events") =>
              /\ stats.total_news_in_events <= stats.total_news
              /\ stats.total_news = Len(news)
              /\ 0 < stats.coverage_rate[1]
              /\ stats.coverage_rate[1] <= stats.coverage_rate[2]
              /\ stats.min_event_size * stats.avg_event_size[2] <= stats.avg_event_size[1]
              /\ stats.avg_event_size[1] <= stats.max_event_size * stats.avg_event_size[2]
              /\ stats.avg_event_size[2] > 0

\* C27 witness: two events of two items each over four input items, the
\* coverage rate 4/4 reported
C27_Witness ==
    /\ AfterAnalyze
    /\ Len(news) = 4
    /\ Len(events) = 2
    /\ \A i \in 1..4 : Cardinality(PlacesOf(i)) = 1
    /\ HasKey(stats, "coverage_rate")
    /\ stats.coverage_rate = <<4, 4>>
    /\ stats.min_event_size = 2 /\ stats.max_event_size = 2

\* the event meets the three conditions of the medium importance tier
MeetsMediumTier(e) ==
    /\ e.news_count >= IMPORTANCE_THRESHOLDS.medium.min_news
    /\ Cardinality(e.sources) >= IMPORTANCE_THRESHOLDS.medium.min_sources
    /\ SumSeq([m \in 1..Len(e.news_list) |-> FieldOr(e.news_list[m], "investment_score", 0)])
          >= IMPORTANCE_THRESHOLDS.medium.min_score * Len(e.news_list)

\* C28: every Event analyze_events produces meets the three medium-tier
\* conditions, so the evaluator rates it Medium or High, never Low, and the
\* decision attached to it has the action Avoid only when its signal is Risk.
C28_EventsAtLeastMedium ==
    (Analyzed /\ ~raised) =>
        \A k \in 1..Len(events) :
            /\ MeetsMediumTier(events[k])
            /\ Evaluate(events[k]) \in {"Medium", "High"}
            /\ HasKey(events[k], "decision") =>
                  /\ events[k].decision.importance \in {"Medium", "High"}
                  /\ events[k].decision.action = "Avoid"
                        => events[k].decision.signal = "Risk"

\* C28 witness: a decided event whose mean score is exactly the minimum 0.3,
\* rated Medium, with a Risk signal and the action Avoid
C28_Witness ==
    /\ pc = "decided" /\ ~raised
    /\ \E k \in 1..Len(events) :
          /\ SumSeq([m \in 1..Len(events[k].news_list) |->
                        FieldOr(events[k].news_list[m], "investment_score", 0)])
                = MIN_INVESTMENT_SCORE * Len(events[k].news_list)
          /\ HasKey(events[k], "decision")
          /\ events[k].decision =
                [importance |-> "Medium", signal |-> "Risk", action |-> "Avoid"]

\* C29: after decide_with_stats on a non-empty list, success_count +
\* error_count = total_events = len(output), and each of the three
\* distributions sums to success_count: only the events that end with a
\* decision attached are counted in them.
C29_DistributionsCountSuccesses ==
    (AfterAnyDecideWithStats /\ eventsIn # <<>>) =>
        /\ dstats.success_count + dstats.error_count = dstats.total_events
        /\ dstats.total_events = Len(decided)
        /\ dstats.importance_distribution.High + dstats.importance_distribution.Medium
              + dstats.importance_distribution.Low = dstats.success_count
        /\ dstats.signal_distribution.Positive + dstats.signal_distribution.Neutral
              + dstats.signal_distribution.Risk = dstats.success_count
        /\ dstats.action_distribution.Watch + dstats.action_distribution.Hold
              + dstats.action_distribution.Avoid = dstats.success_count

\* thread t has returned from its embed_texts call
Returned(t) == threads[t].pc = "done"

\* C30: when two embed_texts calls on one embedder interleave at the level of
\* single cache lookups, the model call and single cache writes, each call
\* that returns gives one vector per input text, the i-th being the embedding
\* of its i-th text; every cache entry maps the key of a prompt to that
\* prompt's embedding; no call fails on the cache; and once both have returned
\* the cache holds exactly the prompts of the two calls. What the interleaving
\* changes is only which prompts each call sends to the model.
C30_InterleavedCallsStayCorrect ==
    /\ \A t \in Threads :
          /\ Returned(t) =>
                /\ Len(threads[t].result) = Len(threads[t].texts)
                /\ \A i \in 1..Len(threads[t].texts) :
                      threads[t].result[i] = Encode(threads[t].texts[i])
          /\ threads[t].exc # "KeyError"
    /\ \A key \in DOMAIN cache : cache[key] = Encode(key[2])
    /\ (\A t \in Threads : Returned(t)) =>
          DOMAIN cache =
              UNION { {GenerateCacheKey(threads[t].texts[i]) :
                          i \in 1..Len(threads[t].texts)} : t \in Threads }

\* C30 witness: both calls have returned, each sent the same prompt to the
\* model because each looked it up before the other stored it, and one of them
\* also took another prompt from the cache
C30_Witness ==
    /\ \A t \in Threads : Returned(t)
    /\ Len(modelCalls) = 2
    /\ Range(modelCalls[1]) \cap Range(modelCalls[2]) # {}
    /\ \E t \in Threads :
          /\ threads[t].cached_embeddings # <<>>
          /\ threads[t].uncached_texts # <<>>
          /\ threads[t].result =
                [i \in 1..Len(threads[t].texts) |-> Encode(threads[t].texts[i])]

====
